---- MODULE Spec2Model ----
(***************************************************************************)
(* A model of the file sorter of TieDye-CLI: tiedye/core/sorter.py         *)
(* (sort_files) as called by the `sort` command of tiedye/main.py.         *)
(*                                                                         *)
(* The filesystem is a set of file entries and a set of directories.  A    *)
(* file name is kept as pathlib parses it: stem and suffix, the stem being *)
(* a base followed by the "(n)" groups the rename policy appended.  A      *)
(* path is a directory together with the way it is spelled (absolute or    *)
(* relative): pathlib compares paths by their spelling, not by the         *)
(* directory they lead to.                                                 *)
(***************************************************************************)
EXTENDS Naturals, Sequences, FiniteSets, TLC

\* ------------------------------------------------------------------ bounds

\* Files in the initial tree.
MaxFiles == 3
\* Rules in the configuration.
MaxRules == 2
\* Successive `sort` invocations with the same configuration.
MaxRuns == 2
\* Operations the environment lets fail (mkdir, shutil.move) in one behaviour.
MaxFailures == 1

\* ------------------------------------------------------------- the universe

\* "src" is the source directory, "sub" a directory inside it, "out" a
\* directory outside the source tree.
Dirs == {"src", "sub", "out"}

\* Directories rglob('*') descends into / glob('*') lists.
TreeDirs(rec) == IF rec THEN {"src", "sub"} ELSE {"src"}

\* How a path is written: absolute, or relative to the working directory.
Spellings == {"abs", "rel"}

\* main.py replaces "." by os.getcwd(): the source directory is absolute.
SourceSpelling == "abs"

Name(b, c, s) == [base |-> b, ctr |-> c, suffix |-> s]

\* a.txt, a(1).txt, b.PDF, c
NameA == Name("a", << >>, ".txt")
NameA1 == Name("a", <<1>>, ".txt")
NameB == Name("b", << >>, ".PDF")
NameC == Name("c", << >>, "")

\* Where the files of an initial tree may lie.
Locations ==
  { [dir |-> "src", name |-> NameA], [dir |-> "sub", name |-> NameA],
    [dir |-> "out", name |-> NameA], [dir |-> "out", name |-> NameA1],
    [dir |-> "src", name |-> NameB], [dir |-> "src", name |-> NameC] }

\* The extension lists a rule may carry, as written in config.yaml.
ExtSets == { {".txt"}, {".txt", ".pdf"} }

\* The directories the rules of a configuration may name.
TargetDirs == {"sub", "out"}

\* The rules a configuration may hold.  How a directory outside the source
\* tree is spelled plays no part (no scanned file lies in it), so only the
\* directory inside the tree comes in both spellings.
Rules ==
  { r \in [extensions : ExtSets, target_folder : TargetDirs,
           spelling : Spellings] :
      r.target_folder = "out" => r.spelling = "abs" }

\* What rule['target_folder'] stands for in a rule that has no such key.
NoKey == "<no target_folder>"

\* A rule written without its target_folder.
MalformedRules ==
  { [extensions |-> {".txt", ".pdf"}, target_folder |-> NoKey,
     spelling |-> "abs"] }

\* The three policies the code names, and a value it does not know.
Policies == {"skip", "overwrite", "rename", "ask"}

\* str.lower() on a suffix.
Lower(s) ==
  CASE s = ".TXT" -> ".txt"
    [] s = ".PDF" -> ".pdf"
    [] OTHER -> s

\* All orders in which a set can be enumerated.
RECURSIVE Perms(_)
Perms(S) ==
  IF S = {} THEN { << >> }
  ELSE UNION { { <<x>> \o p : p \in Perms(S \ {x}) } : x \in S }

SeqsUpTo(S, n) == UNION { [1..k -> S] : k \in 0..n }

\* ------------------------------------------------------------------- state

VARIABLES
  fs,               \* the files: a set of [dir, name, content]
  dirs,             \* the directories that exist
  rules,            \* sorter.rules
  collision_policy, \* sorter.collision_policy
  recursive,        \* sorter.recursive_scan
  ignore_patterns,  \* sorter.ignore_patterns
  sorter_config,    \* whether config.yaml holds a (non-empty) 'sorter' section
  source_is_dir,    \* whether the source argument names a directory
  analytics_ok,     \* whether ~/.tiedye and its analytics.db can be made
  pc,               \* where sort_files stands
  run,              \* the number of the current invocation
  files_to_move,    \* the list phase 1 built: a sequence of [dir, name]
  idx,              \* the position of the phase 2 loop in files_to_move
  matched_rule,     \* index in rules of the matched rule, 0 for None
  destination_path, \* the name under target_folder the file is to get
  count,            \* the counter of the rename loop
  outcome,          \* per position of files_to_move: what became of the file
  printed,          \* the lines printed by this run
  failures,         \* failed operations so far (bounded by MaxFailures)
  hist              \* bookkeeping for the properties, never read by the code

vars == << fs, dirs, rules, collision_policy, recursive, ignore_patterns,
           sorter_config, source_is_dir, analytics_ok, pc, run, files_to_move, idx, matched_rule, destination_path, count,
           outcome, printed, failures, hist >>

config == << rules, collision_policy, recursive, ignore_patterns,
            sorter_config >>

\* What a run finds outside config.yaml.
env == << source_is_dir, analytics_ok >>

\* ------------------------------------------------------- filesystem helpers

Exists(f, d, n) == \E e \in f : e.dir = d /\ e.name = n

\* Path.exists() of target_folder / name.
PathExists(d, n) == Exists(fs, d, n)

\* The tree a set of locations makes: each file holds its own content.
TreeOf(L) == { [dir |-> l.dir, name |-> l.name, content |-> l] : l \in L }

\* Phase 1: the regular files under the source directory whose name is not
\* ignored (each as the pair of its directory and name).
Scan(f, rec, ign) ==
  { [dir |-> e.dir, name |-> e.name] :
      e \in { x \in f : x.dir \in TreeDirs(rec) /\ x.name \notin ign } }

\* ------------------------------------------------------------ pure helpers

\* Lines 66-70: the first rule, in list order, whose extensions contain the
\* lower-cased suffix; 0 stands for None.
RECURSIVE FirstMatch(_, _, _)
FirstMatch(rs, n, i) ==
  IF i > Len(rs) THEN 0
  ELSE IF Lower(n.suffix) \in rs[i].extensions THEN i
  ELSE FirstMatch(rs, n, i + 1)

\* A loop without its break: the last matching rule.
MatchRuleNoBreak(rs, n) ==
  LET M == { i \in 1..Len(rs) : Lower(n.suffix) \in rs[i].extensions } IN
  IF M = {} THEN 0 ELSE CHOOSE i \in M : \A j \in M : j <= i

\* A loop that does not reset matched_rule: a file without a rule keeps the
\* rule of the file before it.
MatchRuleStale(rs, n) ==
  IF FirstMatch(rs, n, 1) = 0 THEN matched_rule ELSE FirstMatch(rs, n, 1)

MatchRule(rs, n) == FirstMatch(rs, n, 1)

\* A new name that leaves the counter out.
NewNameNoCount(n, c) == Name(n.base, Append(n.ctr, 1), n.suffix)

\* Line 93: f"{item_path.stem}({count}){item_path.suffix}".
NewName(n, c) == Name(n.base, Append(n.ctr, c), n.suffix)

\* A loop over the directory as it is now instead of over the list.
CurrentItemLive ==
  LET live == Scan(fs, recursive, ignore_patterns) IN
  IF live = {} THEN files_to_move[idx] ELSE CHOOSE p \in live : TRUE

\* Line 65: the file the loop is at.
CurrentItem == files_to_move[idx]

\* Lines 73-74: the matched rule and the directory its target_folder names.
Rule == rules[matched_rule]

Target == Rule.target_folder

\* Line 80: item_path.parent == target_folder compares the two paths as
\* written: the same directory spelled in two ways is not equal.
SameLocation(item, rule) ==
  item.dir = rule.target_folder /\ SourceSpelling = rule.spelling

\* --------------------------------------------------------------- bookkeeping

FreshHist(f, d, n, clean) ==
  [ fsAtStart |-> f, dirsAtStart |-> d, prevClean |-> clean,
    placed |-> {}, created |-> {}, visited |-> << >>,
    moveCalls |-> [i \in 1..n |-> 0],
    destAt |-> [i \in 1..n |-> {}],
    applied |-> [i \in 1..n |-> 0],
    revisited |-> {},
    mkdirFor |-> {}, mkdirFailed |-> {},
    stopped |-> "no" ]

\* The bookkeeping of a run that ended before phase 1, and why.
StoppedHist(why) ==
  [FreshHist(fs, dirs, 0, FALSE) EXCEPT !.stopped = why]

Say(kind) == Append(printed, [kind |-> kind, pos |-> idx])

SetOutcome(o) == [outcome EXCEPT ![idx] = o]

\* The run that just ended completed and no file of it failed.
RunClean ==
  pc = "done" /\ \A i \in 1..Len(outcome) : outcome[i] # "Failed"

\* -------------------------------------------------------------------- Init

Init ==
  /\ source_is_dir \in BOOLEAN
  /\ analytics_ok \in BOOLEAN
  /\ sorter_config \in BOOLEAN
  /\ \E L \in SUBSET Locations :
       /\ Cardinality(L) <= MaxFiles
       /\ fs = TreeOf(L)
       /\ IF source_is_dir
            THEN dirs = {"src"} \cup { l.dir : l \in L }
            ELSE /\ \A l \in L : l.dir \notin TreeDirs(TRUE)
                 /\ dirs = { l.dir : l \in L }
  /\ IF sorter_config
       THEN /\ rules \in SeqsUpTo(Rules \cup MalformedRules, MaxRules)
            /\ collision_policy \in Policies
            /\ recursive \in BOOLEAN
            /\ ignore_patterns \in { {}, {NameC} }
       ELSE /\ rules = << >>
            /\ collision_policy = "skip"
            /\ recursive = TRUE
            /\ ignore_patterns = {}
  /\ pc = "idle"
  /\ run = 0
  /\ files_to_move = << >>
  /\ idx = 1
  /\ matched_rule = 0
  /\ destination_path = NameC
  /\ count = 0
  /\ outcome = << >>
  /\ printed = << >>
  /\ failures = 0
  /\ hist = FreshHist(fs, dirs, 0, FALSE)

\* ----------------------------------------------------------------- actions

\* The states in which no `sort` invocation is under way.
Ended == {"idle", "done", "aborted", "crashed"}

\* What an invocation that ends before phase 1 leaves behind: nothing but
\* the lines it printed.
EndsEarly(why, lines, at) ==
  /\ run' = run + 1
  /\ files_to_move' = << >>
  /\ outcome' = << >>
  /\ idx' = 1
  /\ matched_rule' = 0
  /\ destination_path' = NameC
  /\ count' = 0
  /\ printed' = [k \in 1..Len(lines) |-> [kind |-> lines[k], pos |-> 0]]
  /\ hist' = StoppedHist(why)
  /\ pc' = at
  /\ UNCHANGED << fs, dirs, config, env, failures >>

\* main.py lines 12-18, plugins/core/scaffolder.py line 14, logging.py line
\* 70: importing main imports the scaffolder, which imports tiedye.logging,
\* whose last line calls init_db().  When ~/.tiedye or the database cannot be
\* made, the import raises and no command of the program starts.
ImportFails ==
  /\ pc \in Ended
  /\ run < MaxRuns
  /\ ~analytics_ok
  /\ EndsEarly("import", << "Traceback" >>, "crashed")

\* sorter.py lines 29-32: without a 'sorter' section sort_files prints an
\* error and returns; main.py line 48 then prints "Sorting Complete!".
NoSorterConfig ==
  /\ pc \in Ended
  /\ run < MaxRuns
  /\ analytics_ok
  /\ ~sorter_config
  /\ EndsEarly("config", << "SorterMissing", "SortingComplete" >>, "done")

\* sorter.py lines 34-38: when the source is not a directory sort_files
\* prints an error and returns; main.py line 48 then prints "Sorting
\* Complete!".
SourceNotDir ==
  /\ pc \in Ended
  /\ run < MaxRuns
  /\ analytics_ok
  /\ sorter_config
  /\ ~source_is_dir
  /\ EndsEarly("source", << "SourceNotFound", "SortingComplete" >>, "done")

\* main.py sort, sorter.py lines 29-61: one `sort` invocation starts; phase 1
\* collects the whole list, in whatever order the directory is enumerated.
Sort ==
  /\ pc \in Ended
  /\ run < MaxRuns
  /\ analytics_ok
  /\ sorter_config
  /\ source_is_dir
  /\ \E order \in Perms(Scan(fs, recursive, ignore_patterns)) :
       /\ files_to_move' = order
       /\ outcome' = [i \in 1..Len(order) |-> "Scanned"]
       /\ hist' = FreshHist(fs, dirs, Len(order), RunClean)
  /\ run' = run + 1
  /\ idx' = 1
  /\ matched_rule' = 0
  /\ destination_path' = NameC
  /\ count' = 0
  /\ printed' = << >>
  /\ pc' = "loop"
  /\ UNCHANGED << fs, dirs, config, env, failures >>

\* Lines 65-72: the loop takes the next file of the list and looks for its
\* rule; a file without a rule is passed over silently.  After the last file
\* sort_files returns and main.py prints "Sorting Complete!".
Match ==
  /\ pc = "loop"
  /\ IF idx > Len(files_to_move)
       THEN /\ pc' = "done"
            /\ printed' = Append(printed, [kind |-> "SortingComplete", pos |-> 0])
            /\ UNCHANGED << idx, matched_rule, outcome, hist >>
       ELSE /\ LET m == MatchRule(rules, CurrentItem.name) IN
               /\ hist' = [hist EXCEPT
                             !.visited = Append(@, CurrentItem),
                             !.applied[idx] = m,
                             !.revisited = IF CurrentItem \in hist.placed
                                             THEN @ \cup {idx} ELSE @]
               /\ IF m = 0
                    THEN /\ outcome' = SetOutcome("SkippedNoRule")
                         /\ idx' = idx + 1
                         /\ UNCHANGED << pc, matched_rule, printed >>
                    ELSE /\ matched_rule' = m
                         /\ pc' = "mkdir"
                         /\ UNCHANGED << idx, outcome, printed >>
  /\ UNCHANGED << fs, dirs, config, env, run, files_to_move, destination_path,
                  count, failures >>

\* Lines 73-75: matched_rule['target_folder'] raises KeyError when the rule
\* has no such key; target_folder.mkdir(parents=True, exist_ok=True) does
\* nothing on an existing directory and otherwise creates the directory or
\* raises.  Both stand outside the try block: the exception leaves
\* sort_files and main.py prints "An unexpected error occured".
Mkdir ==
  /\ pc = "mkdir"
  /\ \/ /\ Target = NoKey
        /\ pc' = "aborted"
        /\ printed' = Append(printed, [kind |-> "UnexpectedErrorMain", pos |-> 0])
        /\ hist' = [hist EXCEPT !.stopped = "rule"]
        /\ UNCHANGED << dirs, failures >>
     \/ /\ Target # NoKey
        /\ dirs' = dirs \cup {Target}
        /\ hist' = [hist EXCEPT
                      !.created = IF Target \in dirs THEN @ ELSE @ \cup {Target},
                      !.mkdirFor = @ \cup {idx}]
        /\ pc' = "resolve"
        /\ UNCHANGED << printed, failures >>
     \/ /\ Target # NoKey
        /\ Target \notin dirs
        /\ failures < MaxFailures
        /\ failures' = failures + 1
        /\ pc' = "aborted"
        /\ printed' = Append(printed, [kind |-> "UnexpectedErrorMain", pos |-> 0])
        /\ hist' = [hist EXCEPT !.mkdirFor = @ \cup {idx},
                                !.mkdirFailed = @ \cup {idx}]
        /\ UNCHANGED dirs
  /\ UNCHANGED << fs, config, env, run, files_to_move, idx, matched_rule,
                  destination_path, count, outcome >>

\* A policy table in which 'skip' goes on to the move.
CollisionActionNoSkip(policy) ==
  CASE policy = "rename" -> "rename"
    [] OTHER -> "overwrite"

\* A policy table in which 'overwrite' looks for a free name.
CollisionActionNoOverwrite(policy) ==
  CASE policy = "skip" -> "continue"
    [] policy = "overwrite" -> "rename"
    [] policy = "rename" -> "rename"
    [] OTHER -> "move"

\* Lines 84-96: what the policy does with a destination that exists.  A
\* policy other than the three named falls through to the move.
CollisionAction(policy) ==
  CASE policy = "skip" -> "continue"
    [] policy = "overwrite" -> "overwrite"
    [] policy = "rename" -> "rename"
    [] OTHER -> "move"

\* Lines 77-91: the same-location test, then the collision policy.
Resolve ==
  /\ pc = "resolve"
  /\ LET item == CurrentItem
         found == { e \in fs : e.dir = Target /\ e.name = item.name }
         act == CollisionAction(collision_policy)
     IN
     /\ hist' = [hist EXCEPT !.destAt[idx] = found]
     /\ IF SameLocation(item, Rule)
          THEN /\ outcome' = SetOutcome("SkippedSameLocation")
               /\ idx' = idx + 1
               /\ pc' = "loop"
               /\ UNCHANGED << destination_path, count, printed >>
          ELSE
            /\ destination_path' = item.name
            /\ IF PathExists(Target, item.name)
                 THEN CASE act = "continue" ->
                             /\ printed' = Say("Skipping")
                             /\ outcome' = SetOutcome("SkippedCollision")
                             /\ idx' = idx + 1
                             /\ pc' = "loop"
                             /\ UNCHANGED count
                        [] act = "overwrite" ->
                             /\ printed' = Say("Overwriting")
                             /\ pc' = "move"
                             /\ UNCHANGED << idx, outcome, count >>
                        [] act = "rename" ->
                             /\ count' = 1
                             /\ pc' = "rename"
                             /\ UNCHANGED << idx, outcome, printed >>
                        [] OTHER ->
                             /\ pc' = "move"
                             /\ UNCHANGED << idx, outcome, count, printed >>
                 ELSE /\ pc' = "move"
                      /\ UNCHANGED << idx, outcome, count, printed >>
  /\ UNCHANGED << fs, dirs, config, env, run, files_to_move, matched_rule,
                  failures >>

\* Lines 92-96: one test of the while loop and, while the path exists, one
\* pass of its body.
Rename ==
  /\ pc = "rename"
  /\ IF PathExists(Target, destination_path)
       THEN /\ destination_path' = NewName(CurrentItem.name, count)
            /\ count' = count + 1
            /\ UNCHANGED << pc, printed >>
       ELSE /\ printed' = Say("Renaming")
            /\ pc' = "move"
            /\ UNCHANGED << destination_path, count >>
  /\ UNCHANGED << fs, dirs, config, env, run, files_to_move, idx, matched_rule,
                  outcome, failures, hist >>

\* What shutil.move can do with an existing source file: move it; raise at
\* once (PermissionError, or another exception) leaving everything as it was;
\* or, between two volumes, copy the file and then be denied the removal of
\* the source.
MoveResults == {"ok", "perm", "io", "copied"}

\* An exception of shutil.move that nothing catches.
AfterMoveUncaught(result) == IF result = "ok" THEN "loop" ELSE "aborted"

\* Lines 99-105: where control goes after shutil.move: the two except clauses
\* end in the loop like the move that succeeded.
AfterMove(result) == "loop"

\* Lines 99-105: one call of shutil.move inside the try block; whatever it
\* raises is printed and the loop goes on with the next file.
Move ==
  /\ pc = "move"
  /\ LET item == CurrentItem
         from == { e \in fs : e.dir = item.dir /\ e.name = item.name }
         onto == { e \in fs : e.dir = Target /\ e.name = destination_path }
         dst  == [dir |-> Target, name |-> destination_path]
         calls == [hist EXCEPT !.moveCalls[idx] = @ + 1]
     IN
     \E result \in MoveResults :
       /\ IF from = {} THEN result = "io"
          ELSE \/ result = "ok"
               \/ /\ failures < MaxFailures
                  /\ result = "copied" => dst # item
       /\ failures' = IF result = "ok" \/ from = {} THEN failures
                      ELSE failures + 1
       /\ CASE result = "ok" ->
                 /\ fs' = (fs \ (from \cup onto)) \cup
                          { [dir |-> dst.dir, name |-> dst.name,
                             content |-> e.content] : e \in from }
                 /\ printed' = Say("Moved")
                 /\ outcome' = SetOutcome("Moved")
                 /\ hist' = [calls EXCEPT !.placed = @ \cup {dst}]
            [] result = "copied" ->
                 /\ fs' = (fs \ onto) \cup
                          { [dir |-> dst.dir, name |-> dst.name,
                             content |-> e.content] : e \in from }
                 /\ printed' = Say("PermissionDenied")
                 /\ outcome' = SetOutcome("Failed")
                 /\ hist' = [calls EXCEPT !.placed = @ \cup {dst}]
            [] result = "perm" ->
                 /\ printed' = Say("PermissionDenied")
                 /\ outcome' = SetOutcome("Failed")
                 /\ hist' = calls
                 /\ UNCHANGED fs
            [] OTHER ->
                 /\ printed' = Say("UnexpectedError")
                 /\ outcome' = SetOutcome("Failed")
                 /\ hist' = calls
                 /\ UNCHANGED fs
       /\ pc' = AfterMove(result)
  /\ idx' = idx + 1
  /\ UNCHANGED << dirs, config, env, run, files_to_move, matched_rule,
                  destination_path, count >>

Next ==
  \/ ImportFails \/ NoSorterConfig \/ SourceNotDir \/ Sort
  \/ Match \/ Mkdir \/ Resolve \/ Rename \/ Move

Spec == Init /\ [][Next]_vars

\* ------------------------------------------------- the end-to-end scenario

\* report.pdf, photo.jpg, notes.txt
Report == Name("report", << >>, ".pdf")
Photo == Name("photo", << >>, ".jpg")
Notes == Name("notes", << >>, ".txt")

\* The source directory of the scenario.
ScenarioTree ==
  TreeOf({ [dir |-> "src", name |-> Report], [dir |-> "src", name |-> Photo],
           [dir |-> "src", name |-> Notes] })

\* A file that may lie at Docs/report.pdf before the run.
OldReport == TreeOf({ [dir |-> "Docs", name |-> Report] })

\* rules: .pdf -> Docs, .jpg -> Images.
ScenarioRules ==
  << [extensions |-> {".pdf"}, target_folder |-> "Docs", spelling |-> "rel"],
     [extensions |-> {".jpg"}, target_folder |-> "Images", spelling |-> "rel"] >>

\* The scenario and what may differ around it: the policy, a file already at
\* Docs/report.pdf, and the three things a run can find amiss before phase 1.
ScenarioInit ==
  /\ source_is_dir \in BOOLEAN
  /\ analytics_ok \in BOOLEAN
  /\ sorter_config \in BOOLEAN
  /\ \E old \in {{}, OldReport} :
       /\ fs = (IF source_is_dir THEN ScenarioTree ELSE {}) \cup old
       /\ dirs = (IF source_is_dir THEN {"src"} ELSE {}) \cup
                 { e.dir : e \in old }
  /\ IF sorter_config
       THEN /\ rules = ScenarioRules
            /\ collision_policy \in Policies
            /\ recursive = FALSE
       ELSE /\ rules = << >>
            /\ collision_policy = "skip"
            /\ recursive = TRUE
  /\ ignore_patterns = {}
  /\ pc = "idle"
  /\ run = 0
  /\ files_to_move = << >>
  /\ idx = 1
  /\ matched_rule = 0
  /\ destination_path = NameC
  /\ count = 0
  /\ outcome = << >>
  /\ printed = << >>
  /\ failures = 0
  /\ hist = FreshHist(fs, dirs, 0, FALSE)

ScenarioSpec == ScenarioInit /\ [][Next]_vars

\* ------------------------------------------------------------------ claims

\* The positions of files_to_move the loop has taken so far in this run.
Visited == 1..Len(hist.visited)

\* The rules whose extension list holds the lower-cased suffix of name n.
Matching(n) ==
  { i \in 1..Len(rules) : Lower(n.suffix) \in rules[i].extensions }

\* C1: the rule applied to a file is the first rule, in list order, whose
\* extensions contain the file's lower-cased suffix, whatever else the rules
\* hold; when no rule contains it, no rule is applied.
C1_FirstMatchWins ==
  \A i \in Visited :
    LET M == Matching(files_to_move[i].name) IN
    IF M = {} THEN hist.applied[i] = 0
    ELSE /\ hist.applied[i] \in M
         /\ \A j \in M : hist.applied[i] <= j

\* C1 happens: in one run a file matched by two rules with different targets
\* got the earlier one, a file with an upper-case suffix got its rule, and a
\* file without suffix got none.
C1_Witness ==
  /\ pc = "done"
  /\ \E i \in Visited :
       /\ Cardinality(Matching(files_to_move[i].name)) = 2
       /\ rules[1].target_folder # rules[2].target_folder
       /\ rules[1].extensions # rules[2].extensions
       /\ hist.applied[i] = 1
  /\ \E i \in Visited :
       /\ files_to_move[i].name = NameB
       /\ hist.applied[i] = 2
  /\ \E i \in Visited :
       /\ files_to_move[i].name.suffix = ""
       /\ hist.applied[i] = 0

\* The file at position i of the list, as it was when the run started.
StartEntry(i) ==
  { e \in hist.fsAtStart :
      e.dir = files_to_move[i].dir /\ e.name = files_to_move[i].name }

\* The directory the rule applied to position i names.
TargetOf(i) == rules[hist.applied[i]].target_folder

\* The files lying in directory d.
FilesIn(d) == { e \in fs : e.dir = d }

\* C2: under policy 'skip', a matched file whose destination existed when the
\* file was processed stays where it was, the entry found at the destination
\* is still there unchanged, and shutil.move was never called for the file.
C2_SkipLeavesBoth ==
  collision_policy = "skip" =>
    \A i \in 1..Len(files_to_move) :
      hist.destAt[i] # {} =>
        /\ StartEntry(i) # {}
        /\ StartEntry(i) \subseteq fs
        /\ hist.destAt[i] \subseteq fs
        /\ hist.moveCalls[i] = 0
        /\ outcome[i] \in {"SkippedCollision", "SkippedSameLocation"}

\* C2 happens: a run under 'skip' ended in which a file outside its target
\* folder met an existing destination, after another file had been moved.
C2_Witness ==
  /\ collision_policy = "skip"
  /\ pc = "done"
  /\ \E i \in 1..Len(files_to_move) :
       /\ hist.destAt[i] # {}
       /\ files_to_move[i].dir # TargetOf(i)
       /\ outcome[i] = "SkippedCollision"
  /\ \E i \in 1..Len(files_to_move) : outcome[i] = "Moved"

\* The name stem(k)suffix made from name n.
Numbered(n, k) == [base |-> n.base, ctr |-> n.ctr \o <<k>>, suffix |-> n.suffix]

\* C3: under policy 'rename', while the loop runs it has tried the names with
\* counters 1..count-1 after finding the earlier ones in use, so it runs at
\* most once per file of the target folder; and the destination it leaves for
\* the move is stem(n)suffix for the smallest n >= 1 that does not exist.
C3_RenameSmallestFree ==
  collision_policy = "rename" =>
    /\ pc = "rename" =>
         /\ count >= 1
         /\ count - 1 <= Cardinality(FilesIn(Target))
         /\ destination_path =
              IF count = 1 THEN CurrentItem.name
              ELSE Numbered(CurrentItem.name, count - 1)
         /\ PathExists(Target, CurrentItem.name)
         /\ \A m \in 1..(count - 2) :
              PathExists(Target, Numbered(CurrentItem.name, m))
    /\ (pc = "move" /\ PathExists(Target, CurrentItem.name)) =>
         /\ ~PathExists(Target, destination_path)
         /\ \E n \in 1..(Cardinality(FilesIn(Target)) + 1) :
              /\ destination_path = Numbered(CurrentItem.name, n)
              /\ \A m \in 1..(n - 1) :
                   PathExists(Target, Numbered(CurrentItem.name, m))

\* C3 happens: with a.txt and a(1).txt in the target folder, a third a.txt is
\* about to be moved to a(2).txt.
C3_Witness ==
  /\ collision_policy = "rename"
  /\ pc = "move"
  /\ CurrentItem.name = NameA
  /\ CurrentItem.dir # Target
  /\ PathExists(Target, NameA)
  /\ PathExists(Target, NameA1)
  /\ destination_path = Name("a", <<2>>, ".txt")

\* A run is under way, or has ended, that got as far as phase 1.
Scanning ==
  pc # "idle" /\ hist.stopped \notin {"import", "config", "source"}

\* Phase 2 walks the list phase 1 built from the tree as it was before the
\* run changed anything: the list holds each scanned file once, and the files
\* taken so far are its first entries, in order.
StaticList ==
  /\ { files_to_move[i] : i \in 1..Len(files_to_move) } =
       { [dir |-> e.dir, name |-> e.name] :
           e \in { x \in hist.fsAtStart :
                     x.dir \in TreeDirs(recursive) /\ x.name \notin ignore_patterns } }
  /\ \A i, j \in 1..Len(files_to_move) :
       files_to_move[i] = files_to_move[j] => i = j
  /\ Len(hist.visited) <= Len(files_to_move)
  /\ \A i \in Visited : hist.visited[i] = files_to_move[i]
  /\ \A i \in Visited : files_to_move[i].dir \notin hist.created

\* C4 as stated: the list is static, each scanned file is taken at most once,
\* no file of a folder the run created is taken, and the loop never takes a
\* path at which this run has placed a file.
C4_NeverRevisited ==
  Scanning => (StaticList /\ hist.revisited = {})

\* C4 as amended: the same, but under 'overwrite' (or a policy value the code
\* does not know, which moves onto an existing destination as well) the loop
\* may take a path at which this run has placed a file: the path of a scanned
\* file lying in its target folder, which the placed file replaced before the
\* loop came to it.
C4_TwoPassIsolation ==
  Scanning =>
    /\ StaticList
    /\ hist.revisited # {} => collision_policy \in {"overwrite", "ask"}
    /\ \A i \in hist.revisited :
         /\ StartEntry(i) # {}
         /\ hist.applied[i] # 0
         /\ files_to_move[i].dir = TargetOf(i)

\* C4 happens: a recursive run ended that created a target folder inside the
\* source tree and moved two files into it.
C4_Witness ==
  /\ pc = "done"
  /\ recursive
  /\ "sub" \in hist.created
  /\ Cardinality({ p \in hist.placed : p.dir = "sub" }) >= 2
  /\ Len(hist.visited) = Len(files_to_move)

\* The lines printed about position i of the list.
PrintedFor(i) == { k \in 1..Len(printed) : printed[k].pos = i }

\* C5 as stated: a matched file that lies in the directory its rule names is
\* passed over by the same-location test, whatever the policy and however the
\* two directories are written: it is never moved, and neither the skip
\* message nor the overwrite nor the rename loop is applied to it.
C5_SameLocationShortCircuit ==
  \A i \in Visited :
    (hist.applied[i] # 0 /\ files_to_move[i].dir = TargetOf(i)) =>
      /\ outcome[i] \in {"Scanned", "SkippedSameLocation"}
      /\ hist.moveCalls[i] = 0
      /\ PrintedFor(i) = {}
      /\ i = idx => pc \in {"mkdir", "resolve", "aborted"}

\* C6: when a run under 'skip' completed without a failed file, the run that
\* follows it calls shutil.move for no file and leaves the files and the
\* directories as that run left them.
C6_SecondRunIdle ==
  (collision_policy = "skip" /\ run >= 2 /\ hist.prevClean) =>
    /\ fs = hist.fsAtStart
    /\ dirs = hist.dirsAtStart
    /\ \A i \in 1..Len(files_to_move) :
         /\ hist.moveCalls[i] = 0
         /\ outcome[i] \notin {"Moved", "Failed"}
    /\ pc \notin {"move", "rename", "aborted"}

\* C6 happens: the second run under 'skip' ended after a first run that moved
\* a file into a folder inside the source tree and left another at a
\* collision; the second run met both again.
C6_Witness ==
  /\ collision_policy = "skip"
  /\ run = 2
  /\ pc = "done"
  /\ hist.prevClean
  /\ \E e \in fs : e.dir # e.content.dir
  /\ \E i \in 1..Len(files_to_move) : outcome[i] = "SkippedCollision"
  /\ \E i \in 1..Len(files_to_move) : outcome[i] = "SkippedSameLocation"

\* C7: a scanned file whose suffix no rule holds is never moved, no directory
\* is created for it, nothing is printed about it (every such file is left
\* out of the report), and it keeps its path and content through the run.
C7_UnmatchedUntouched ==
  \A i \in 1..Len(files_to_move) :
    Matching(files_to_move[i].name) = {} =>
      /\ StartEntry(i) # {}
      /\ StartEntry(i) \subseteq fs
      /\ hist.moveCalls[i] = 0
      /\ i \notin hist.mkdirFor
      /\ PrintedFor(i) = {}
      /\ outcome[i] = IF i \in Visited THEN "SkippedNoRule" ELSE "Scanned"

\* C7 happens: a run ended in which a file with a suffix no rule holds and a
\* file without suffix were scanned after a file that was moved.
C7_Witness ==
  /\ pc = "done"
  /\ outcome = << "Moved", "SkippedNoRule", "SkippedNoRule" >>
  /\ files_to_move[2].name = NameB
  /\ files_to_move[3].name = NameC

\* The step that handles a matched file whose destination exists under
\* 'overwrite' goes on to the move with the name unchanged; and the step in
\* which the move succeeds leaves the source's content at the destination,
\* the source path empty and one file fewer.
OverwriteStep(i) ==
  /\ (pc = "resolve" /\ PathExists(Target, files_to_move[i].name)) =>
       /\ pc' = "move"
       /\ idx' = idx
       /\ destination_path' = files_to_move[i].name
  /\ (pc = "move" /\ hist.destAt[i] # {} /\ outcome'[i] = "Moved") =>
       /\ destination_path = files_to_move[i].name
       /\ { e \in fs' : e.dir = Target /\ e.name = files_to_move[i].name } =
            { [dir |-> Target, name |-> files_to_move[i].name,
               content |-> e.content] :
                e \in { x \in fs : x.dir = files_to_move[i].dir
                                   /\ x.name = files_to_move[i].name } }
       /\ ~Exists(fs', files_to_move[i].dir, files_to_move[i].name)
       /\ Cardinality(fs') = Cardinality(fs) - 1

\* C8 as stated: under 'overwrite' every matched file whose destination
\* exists is moved onto it.
C8_OverwriteEveryCollision ==
  [][ (collision_policy = "overwrite" /\ pc \in {"resolve", "move"})
        => OverwriteStep(idx) ]_vars

\* C8 as amended: under 'overwrite' every matched file that does not already
\* lie in its rule's target folder and whose destination exists is moved
\* onto it.
C8_OverwriteReplaces ==
  [][ (collision_policy = "overwrite" /\ pc \in {"resolve", "move"}
       /\ CurrentItem.dir # Target)
        => OverwriteStep(idx) ]_vars

\* C8 happens: under 'overwrite' a file has just been moved onto a
\* destination that held another file.
C8_Witness ==
  /\ collision_policy = "overwrite"
  /\ pc = "loop"
  /\ idx > 1
  /\ outcome[idx - 1] = "Moved"
  /\ hist.destAt[idx - 1] # {}
  /\ files_to_move[idx - 1].dir # TargetOf(idx - 1)
  /\ \E e \in fs : /\ e.dir = TargetOf(idx - 1)
                   /\ e.name = files_to_move[idx - 1].name
                   /\ e.content = files_to_move[idx - 1]
  /\ hist.destAt[idx - 1] \cap fs = {}

C10_MkdirFailureIsolated ==
  \A i \in hist.mkdirFailed :
    /\ outcome[i] = "Failed"
    /\ pc # "aborted"

\* The configuration is missing or malformed: there is no 'sorter' section,
\* or some rule of the list has no target_folder.
Malformed ==
  \/ ~sorter_config
  \/ \E i \in 1..Len(rules) : rules[i].target_folder = NoKey

\* C11 as stated: a run with a missing or malformed configuration changes
\* nothing: it creates no directory, calls shutil.move for no file, and
\* leaves the files and the directories as they were when it started.
C11_MalformedConfigAborts ==
  (Malformed /\ pc # "idle") =>
    /\ fs = hist.fsAtStart
    /\ dirs = hist.dirsAtStart
    /\ hist.created = {}
    /\ \A i \in 1..Len(files_to_move) : hist.moveCalls[i] = 0

\* The kinds of the lines this run printed.
PrintedKinds == { printed[k].kind : k \in 1..Len(printed) }

\* C12 as stated: a run whose source is not a directory enumerates no file,
\* creates no directory and moves no file, and it ends by an exception
\* (NotADirectoryError) that reports it as failed: it is never reported as
\* completed.
C12_InvalidSourceFails ==
  (~source_is_dir /\ sorter_config /\ analytics_ok /\ pc # "idle") =>
    /\ files_to_move = << >>
    /\ fs = hist.fsAtStart
    /\ dirs = hist.dirsAtStart
    /\ pc = "aborted"
    /\ "SortingComplete" \notin PrintedKinds

\* C13 as stated: with the analytics store unavailable a `sort` invocation
\* does not fail: it starts, and with a usable configuration and source it
\* scans the files it would scan with analytics available.
C13_SortWithoutAnalytics ==
  (~analytics_ok /\ pc # "idle") =>
    /\ pc # "crashed"
    /\ "Traceback" \notin PrintedKinds
    /\ (sorter_config /\ source_is_dir) =>
         { files_to_move[i] : i \in 1..Len(files_to_move) } =
           Scan(hist.fsAtStart, recursive, ignore_patterns)

\* The five terminal statuses of a scanned file.
Terminal ==
  { "Moved", "Failed", "SkippedCollision", "SkippedNoRule",
    "SkippedSameLocation" }

\* The lines of the run's output that tell what became of the file at
\* position i ("Overwriting" and "Renaming to" announce a move, they do not
\* tell its result), and the status such a line tells.
StatusLines(i) ==
  { k \in PrintedFor(i) :
      printed[k].kind \in
        {"Moved", "PermissionDenied", "UnexpectedError", "Skipping"} }

LineStatus(kind) ==
  CASE kind = "Moved" -> "Moved"
    [] kind = "Skipping" -> "SkippedCollision"
    [] OTHER -> "Failed"

\* The positions of the list whose file no rule matched.
Unmatched ==
  { i \in 1..Len(files_to_move) : Matching(files_to_move[i].name) = {} }

\* C14 as stated: when a run that scanned has ended, every file of the list
\* is in one of the five terminal statuses; what the run puts out tells, in
\* the order of the list, the status of every file (the unmatched files
\* either all told or all left out), one entry per file, so that the entries
\* counted by status add up to the number of files told.
C14_EveryFileReported ==
  (Scanning /\ pc \in {"done", "aborted"}) =>
    /\ \A i \in 1..Len(files_to_move) : outcome[i] \in Terminal
    /\ \A i \in 1..Len(files_to_move) \ Unmatched :
         /\ Cardinality(StatusLines(i)) = 1
         /\ \A k \in StatusLines(i) : LineStatus(printed[k].kind) = outcome[i]
    /\ \/ \A i \in Unmatched : StatusLines(i) = {}
       \/ \A i \in Unmatched : Cardinality(StatusLines(i)) = 1
    /\ \A k, l \in 1..Len(printed) :
         (k < l /\ printed[k].pos # 0 /\ printed[l].pos # 0) =>
           printed[k].pos <= printed[l].pos

\* The first run of the scenario: the three files in the source directory,
\* the two rules, policy 'skip', a flat scan, nothing at the destinations,
\* and no operation failing.
InScenario ==
  /\ analytics_ok /\ sorter_config /\ source_is_dir
  /\ rules = ScenarioRules
  /\ collision_policy = "skip"
  /\ ~recursive
  /\ run = 1
  /\ hist.fsAtStart = ScenarioTree
  /\ failures = 0

\* The report lines that say "Moved".
MovedLines == { k \in 1..Len(printed) : printed[k].kind = "Moved" }

\* The scenario's files where the run is to leave them.
ScenarioResult ==
  { [dir |-> "Docs", name |-> Report,
     content |-> [dir |-> "src", name |-> Report]],
    [dir |-> "Images", name |-> Photo,
     content |-> [dir |-> "src", name |-> Photo]],
    [dir |-> "src", name |-> Notes,
     content |-> [dir |-> "src", name |-> Notes]] }

\* C15 as stated: the run of the scenario ends complete with report.pdf at
\* Docs/report.pdf, photo.jpg at Images/photo.jpg, neither left in the source
\* directory, notes.txt in place; the report tells of two files moved and of
\* one file, notes.txt, left unmatched.
C15_Scenario ==
  (InScenario /\ pc \in {"done", "aborted"}) =>
    /\ pc = "done"
    /\ fs = ScenarioResult
    /\ Cardinality(MovedLines) = 2
    /\ Cardinality(Unmatched) = 1
    /\ \A i \in Unmatched :
         files_to_move[i].name = Notes /\ PrintedFor(i) # {}

\* The part of C15 on the files: where the run of the scenario leaves them,
\* and the two "Moved" lines.
ScenarioFilesMoved ==
  (InScenario /\ pc \in {"done", "aborted"}) =>
    /\ pc = "done"
    /\ fs = ScenarioResult
    /\ Cardinality(MovedLines) = 2
    /\ \A i \in 1..Len(files_to_move) :
         outcome[i] = IF files_to_move[i].name = Notes
                        THEN "SkippedNoRule" ELSE "Moved"

\* The files of tree f that hold content c.
Holding(f, c) == { e \in f : e.content = c }

\* The contents the tree held when the run started.
ContentsAtStart == { e.content : e \in hist.fsAtStart }

\* Every file the tree held when the run started is still there with its
\* content, at its own path or in the target folder of the rule applied to
\* it.
NothingLost ==
  \A e \in hist.fsAtStart :
    \E f \in fs :
      /\ f.content = e.content
      /\ \/ f = e
         \/ \E i \in 1..Len(files_to_move) :
              /\ files_to_move[i] = [dir |-> e.dir, name |-> e.name]
              /\ hist.applied[i] # 0
              /\ f.dir = TargetOf(i)

\* The positions of the list whose move failed.
FailedMoves == { i \in 1..Len(files_to_move) : outcome[i] = "Failed" }

\* C16 as stated: under 'skip' and 'rename', whatever the tree and whichever
\* moves fail, every file that existed before the run is still there at
\* exactly one path, its own or one in its rule's target folder, and the
\* number of files is unchanged.
C16_ExactlyOnePath ==
  (collision_policy \in {"skip", "rename"} /\ pc # "idle") =>
    /\ NothingLost
    /\ \A c \in ContentsAtStart :
         Cardinality(Holding(fs, c)) = Cardinality(Holding(hist.fsAtStart, c))
    /\ Cardinality(fs) = Cardinality(hist.fsAtStart)

\* C16 as amended: under 'skip' and 'rename' every file that existed before
\* the run is still there with its content, at its own path or in its rule's
\* target folder; no content has fewer copies than before, and the number of
\* files grows by at most one per failed move (a move that copied the file
\* and was then denied the removal of the source leaves it at both paths),
\* so it is unchanged when no move failed.
C16_Conservation ==
  (collision_policy \in {"skip", "rename"} /\ pc # "idle") =>
    /\ NothingLost
    /\ \A c \in ContentsAtStart :
         Cardinality(Holding(fs, c)) >= Cardinality(Holding(hist.fsAtStart, c))
    /\ { e.content : e \in fs } = ContentsAtStart
    /\ Cardinality(fs) >= Cardinality(hist.fsAtStart)
    /\ Cardinality(fs) <= Cardinality(hist.fsAtStart) + Cardinality(FailedMoves)

\* C16 happens: a recursive run under 'rename' ended in which two files of
\* the same name from two directories were moved into one target folder and
\* the move of a third file failed.
C16_Witness ==
  /\ collision_policy = "rename"
  /\ pc = "done"
  /\ \E i, j \in 1..Len(files_to_move) :
       /\ i # j
       /\ files_to_move[i].name = files_to_move[j].name
       /\ files_to_move[i].dir # files_to_move[j].dir
       /\ outcome[i] = "Moved" /\ outcome[j] = "Moved"
       /\ TargetOf(i) = TargetOf(j)
       /\ Cardinality(Holding(FilesIn(TargetOf(i)),
                              files_to_move[i])) = 1
       /\ Cardinality(Holding(FilesIn(TargetOf(i)),
                              files_to_move[j])) = 1
  /\ FailedMoves # {}

====
